---- MODULE Spec2Model ----
(***************************************************************************)
(* StarConnect backend: the notification store, the follow graph, the      *)
(* posts, the in-process pub/sub facade, the socket registry and the       *)
(* request handlers that drive them.                                       *)
(*                                                                         *)
(* Conventions.                                                            *)
(*  - A JS string that the code cuts or measures is a sequence of one      *)
(*    character strings; the characters themselves are abstracted, the     *)
(*    lengths are kept.                                                    *)
(*  - Date.now() is the variable now, in milliseconds relative to the      *)
(*    start of the run; Math.random() is one of Frac equally spaced        *)
(*    fractions, so Date.now() + Math.random() is now * Frac + r.          *)
(*  - A function of the code that returns a value and changes the store    *)
(*    is an operator giving the record [store, result].                    *)
(*  - ret is the call made by the last step and what it returned; emitted  *)
(*    is what the last step pushed with sendNotificationToUser, in order.  *)
(*  - calls counts the addNotification calls, created the posts and the    *)
(*    comments made, and lastReg[u] is the socket of the latest            *)
(*    registerUserSocket(u, ...), 0 before the first: they record the run  *)
(*    and no handler reads them.                                           *)
(*  - turn is what the turn of the last step did besides: ran, the         *)
(*    listeners that eventEmitter.emit invoked, in order; caught, the      *)
(*    errors its catch blocks logged, in order; jobs, the continuations    *)
(*    its awaits left for after the synchronous part, in order.            *)
(*  - bus.unsubscribed holds the channels for which unsubscribeFromChannel *)
(*    was called and no listener was added since: it records the run and   *)
(*    no function reads it.                                                *)
(***************************************************************************)
EXTENDS Integers, Sequences, FiniteSets, TLC

VARIABLES users, posts, notifications, userSockets, sockets, bus, now, calls, created,
          lastReg, ret, emitted, turn

vars == <<users, posts, notifications, userSockets, sockets, bus, now, calls, created,
          lastReg, ret, emitted, turn>>

(***************************************************************************)
(* Bounds of the model                                                     *)
(***************************************************************************)
\* addNotification calls in one run
MaxCalls == 2
\* the clock runs from 0 to MaxNow
MaxNow == 1
\* distinct values of Math.random()
Frac == 1
\* posts created in one run
MaxNewPosts == 1
\* comments added in one run
MaxNewComments == 1
\* socket connections
NumSockets == 2

(***************************************************************************)
(* Program constants                                                       *)
(***************************************************************************)
\* notifications.js:22 and :23
Capacity == 50
\* notifications.js:31, the default limit
DefaultLimit == 20
\* notifications.js:115
PostCut == 100
\* notifications.js:145
CommentCut == 50

None == "none"

\* the value of ret: the operation called, the user it was called for, its
\* argument and what it returned
Call(op, user, arg, result) == [op |-> op, user |-> user, arg |-> arg, result |-> result]

\* no call yet
NoCall == Call("none", 0, None, None)

Min(a, b) == IF a < b THEN a ELSE b

\* n characters c
Str(n, c) == [i \in 1..n |-> c]

\* String.prototype.substring(a, b) for 0 <= a <= b
substring(s, a, b) == SubSeq(s, a + 1, Min(b, Len(s)))

Ellipsis == Str(3, ".")

\* s.substring(0, n) + (s.length > n ? '...' : '')
Cut(s, n) == substring(s, 0, n) \o (IF Len(s) > n THEN Ellipsis ELSE <<>>)

(***************************************************************************)
(* data/users.js                                                           *)
(***************************************************************************)
InitialUsers ==
  << [id |-> 1, type |-> "celebrity", name |-> "John Celebrity",
      followers |-> <<2>>, following |-> <<>>],
     [id |-> 2, type |-> "public", name |-> "Jane Public",
      followers |-> <<>>, following |-> <<1>>] >>

UserIds == {InitialUsers[i].id : i \in 1..Len(InitialUsers)}

\* Array.prototype.includes
includes(arr, x) == \E i \in 1..Len(arr) : arr[i] = x

\* Array.prototype.filter(id => id !== x)
without(arr, x) == SelectSeq(arr, LAMBDA y : y # x)

\* Array.prototype.findIndex(x => x.id === id): the first index, 0 for none
findIndexById(arr, id) ==
  IF \E i \in 1..Len(arr) : arr[i].id = id
  THEN CHOOSE i \in 1..Len(arr) : arr[i].id = id /\ \A j \in 1..(i - 1) : arr[j].id # id
  ELSE 0

\* Array.prototype.find(x => x.id === id), where it finds one
findById(arr, id) == arr[findIndexById(arr, id)]

\* Math.max(...arr.map(x => x.id)) of a non-empty array
MaxId(arr) == CHOOSE m \in {arr[i].id : i \in 1..Len(arr)} :
                \A i \in 1..Len(arr) : arr[i].id <= m

\* String.prototype.trim, the blank being " "
RECURSIVE trim(_)
trim(s) ==
  IF s = <<>> THEN s
  ELSE IF Head(s) = " " THEN trim(Tail(s))
  ELSE IF s[Len(s)] = " " THEN trim(SubSeq(s, 1, Len(s) - 1))
  ELSE s

(***************************************************************************)
(* routes/posts.js: the posts array                                        *)
(***************************************************************************)
InitialPosts ==
  << [id |-> 1, userId |-> 1, content |-> Str(47, "a"), likes |-> <<>>,
      comments |-> << [id |-> 1, userId |-> 2, text |-> Str(54, "w")] >>],
     [id |-> 2, userId |-> 2, content |-> Str(58, "b"), likes |-> <<>>,
      comments |-> <<>>] >>

(***************************************************************************)
(* services/notifications.js: the drafts                                   *)
(* The name of the author or of the liker may be missing from the object   *)
(* an event carries: reading it gives undefined, and a template literal    *)
(* writes undefined as the text "undefined".                               *)
(***************************************************************************)
\* the value undefined
Undefined == [undefined |-> TRUE]

\* object.field
Read(object, field) ==
  IF field \in DOMAIN object THEN object[field] ELSE Undefined

\* `${object.field}`
Template(object, field) ==
  IF field \in DOMAIN object THEN object[field] ELSE "undefined"

createPostNotification(post, author) ==
  [ type |-> "newPost",
    title |-> "New Post",
    message |-> <<Template(author, "name"), " just posted something new!">>,
    data |-> [ content |-> Cut(post.content, PostCut),
               postId |-> post.id,
               authorId |-> post.userId,
               authorName |-> Read(author, "name") ] ]

createLikeNotification(post, liker, postAuthor) ==
  [ type |-> "newLike",
    title |-> "New Like",
    message |-> <<Template(liker, "name"), " liked your post">>,
    data |-> [ postId |-> post.id,
               likerId |-> liker.id,
               likerName |-> Read(liker, "name") ] ]

(***************************************************************************)
(* services/notifications.js: the store                                    *)
(* notifications is the Map: a function whose domain is the set of keys.   *)
(***************************************************************************)
has(store, userId) == userId \in DOMAIN store

MapSet(store, userId, list) ==
  [k \in (DOMAIN store) \cup {userId} |-> IF k = userId THEN list ELSE store[k]]

\* the record built at notifications.js:12-17; seq is not a field of the
\* code's record: it numbers the addNotification calls of the run.
NewNotification(draft, t, r, n) ==
  [ id |-> t * Frac + r,
    type |-> draft.type,
    title |-> draft.title,
    message |-> draft.message,
    data |-> draft.data,
    timestamp |-> t,
    read |-> FALSE,
    seq |-> n ]

\* a list that grows at its end: push in place of unshift
unshift_push(list, x) == Append(list, x)

\* a write that loses the records another request stored
unshift_alone(list, x) == <<x>>

\* userNotifications.unshift(x)
unshift(list, x) == <<x>> \o list

\* a cut that starts one record late: length > 51 in place of length > 50
spliceCapacity_late(list) ==
  IF Len(list) > Capacity + 1 THEN SubSeq(list, 1, Capacity) ELSE list

\* if (length > 50) splice(50)
spliceCapacity(list) ==
  IF Len(list) > Capacity THEN SubSeq(list, 1, Capacity) ELSE list

addNotification(store, userId, draft, t, r, n) ==
  LET userNotifications == IF has(store, userId) THEN store[userId] ELSE <<>>
      newNotification == NewNotification(draft, t, r, n)
  IN [ result |-> newNotification,
       store |-> MapSet(store, userId,
                        spliceCapacity(unshift(userNotifications, newNotification))) ]

\* a read that forgets the limit: userNotifications.slice(0)
getNotifications_whole(store, userId, limit) ==
  IF ~has(store, userId) THEN <<>> ELSE store[userId]

\* userNotifications.slice(0, limit) for limit >= 0
getNotifications(store, userId, limit) ==
  IF ~has(store, userId) THEN <<>>
  ELSE SubSeq(store[userId], 1, Min(limit, Len(store[userId])))

\* a count without the filter: userNotifications.length
getUnreadCount_all(store, userId) ==
  IF ~has(store, userId) THEN 0 ELSE Len(store[userId])

\* filter(notification => !notification.read).length
getUnreadCount(store, userId) ==
  IF ~has(store, userId) THEN 0
  ELSE Len(SelectSeq(store[userId], LAMBDA x : ~x.read))

\* the values a caller passes for an id carry their JS type: a number, or
\* the text of a number as a sequence of its characters
Number(n) == [type |-> "number", value |-> n]

RECURSIVE Digits(_)
\* the decimal digits of n >= 0
Digits(n) ==
  LET d == <<"0", "1", "2", "3", "4", "5", "6", "7", "8", "9">>[(n % 10) + 1]
  IN IF n < 10 THEN <<d>> ELSE Append(Digits(n \div 10), d)

\* String(n): the text of a number
String(n) ==
  [type |-> "string", value |-> IF n < 0 THEN <<"-">> \o Digits(0 - n) ELSE Digits(n)]

\* id === v for the id of a record, which is a number: equal types, then
\* equal values
StrictEquals(id, v) == v.type = "number" /\ v.value = id

\* a mark that flips the flag: notification.read = !notification.read
markAsRead_toggle(store, userId, notificationId) ==
  IF ~has(store, userId) THEN [result |-> FALSE, store |-> store]
  ELSE LET userNotifications == store[userId]
           hit == {i \in 1..Len(userNotifications) :
                     StrictEquals(userNotifications[i].id, notificationId)}
       IN IF hit # {}
          THEN LET first == CHOOSE i \in hit : \A j \in hit : i <= j
               IN [ result |-> TRUE,
                    store |-> [store EXCEPT ![userId][first].read = ~@] ]
          ELSE [result |-> FALSE, store |-> store]

\* a search through the lists of all users: every record with the id is read
markAsRead_anyList(store, userId, notificationId) ==
  LET marked == [u \in DOMAIN store |->
                   [i \in 1..Len(store[u]) |->
                      IF StrictEquals(store[u][i].id, notificationId)
                      THEN [store[u][i] EXCEPT !.read = TRUE]
                      ELSE store[u][i]]]
  IN [result |-> marked # store, store |-> marked]

\* find(n => n.id === notificationId), then notification.read = true
markAsRead(store, userId, notificationId) ==
  IF ~has(store, userId) THEN [result |-> FALSE, store |-> store]
  ELSE LET userNotifications == store[userId]
           hit == {i \in 1..Len(userNotifications) :
                     StrictEquals(userNotifications[i].id, notificationId)}
       IN IF hit # {}
          THEN LET first == CHOOSE i \in hit : \A j \in hit : i <= j
               IN [ result |-> TRUE,
                    store |-> [store EXCEPT ![userId][first].read = TRUE] ]
          ELSE [result |-> FALSE, store |-> store]

\* a loop that ends after the newest record
markAllAsRead_firstOnly(store, userId) ==
  IF ~has(store, userId) THEN [result |-> FALSE, store |-> store]
  ELSE IF store[userId] = <<>> THEN [result |-> TRUE, store |-> store]
  ELSE [result |-> TRUE, store |-> [store EXCEPT ![userId][1].read = TRUE]]

\* an unknown user given an empty list, as addNotification does
markAllAsRead_create(store, userId) ==
  IF ~has(store, userId) THEN [result |-> TRUE, store |-> MapSet(store, userId, <<>>)]
  ELSE LET userNotifications == store[userId]
       IN [ result |-> TRUE,
            store |-> [store EXCEPT ![userId] =
                         [i \in 1..Len(userNotifications) |->
                            [userNotifications[i] EXCEPT !.read = TRUE]]] ]

\* a mark that drops the records it has marked
markAllAsRead_purge(store, userId) ==
  IF ~has(store, userId) THEN [result |-> FALSE, store |-> store]
  ELSE [result |-> TRUE, store |-> [store EXCEPT ![userId] = <<>>]]

\* forEach(notification => notification.read = true)
markAllAsRead(store, userId) ==
  IF ~has(store, userId) THEN [result |-> FALSE, store |-> store]
  ELSE LET userNotifications == store[userId]
       IN [ result |-> TRUE,
            store |-> [store EXCEPT ![userId] =
                         [i \in 1..Len(userNotifications) |->
                            [userNotifications[i] EXCEPT !.read = TRUE]]] ]

(***************************************************************************)
(* services/notifications.js: the socket registry and the push             *)
(* userSockets is the Map userId -> socket id.                             *)
(***************************************************************************)
\* a registration that keeps the entry the user already has
registerUserSocket_keepFirst(reg, userId, socketId) ==
  IF has(reg, userId) THEN reg ELSE MapSet(reg, userId, socketId)

registerUserSocket(reg, userId, socketId) == MapSet(reg, userId, socketId)

unregisterUserSocket(reg, userId) == [k \in (DOMAIN reg) \ {userId} |-> reg[k]]

\* a dispatcher that emits a second time
sendNotificationToUser_twice(reg, userId, notification) ==
  IF has(reg, userId)
  THEN << [user |-> userId, to |-> reg[userId], event |-> "newNotification",
           payload |-> notification],
          [user |-> userId, to |-> reg[userId], event |-> "newNotification",
           payload |-> notification] >>
  ELSE <<>>

\* the pushes of one sendNotificationToUser call: io.to(socketId).emit(...)
\* when the user has an entry, nothing otherwise. user is the userId argument.
sendNotificationToUser(reg, userId, notification) ==
  IF has(reg, userId)
  THEN << [user |-> userId, to |-> reg[userId], event |-> "newNotification",
           payload |-> notification] >>
  ELSE <<>>

(***************************************************************************)
(* services/notifications.js: createCommentNotification                    *)
(* The caller (index.js:125) passes (post, comment, commenter, postAuthor);*)
(* the function declares (post, commenter, postAuthor) and its body reads  *)
(* comment, which is no parameter and no name of the module: evaluating    *)
(* comment.id throws a ReferenceError.                                     *)
(***************************************************************************)
Returned(v) == [value |-> v, ok |-> TRUE]

Thrown(e) == [ok |-> FALSE, error |-> e]

\* the names of services/notifications.js at module level
ModuleScope ==
  { "notifications", "userSockets", "addNotification", "getNotifications",
    "getUnreadCount", "markAsRead", "markAllAsRead", "registerUserSocket",
    "unregisterUserSocket", "getUserSocket", "sendNotificationToUser",
    "createPostNotification", "createLikeNotification",
    "createCommentNotification", "module" }

createCommentNotification(a1, a2, a3, a4) ==
  LET env == [post |-> a1, postAuthor |-> a3, commenter |-> a2]
  IN IF "comment" \notin (DOMAIN env) \cup ModuleScope
     THEN Thrown("ReferenceError")
     ELSE Returned(
            [ type |-> "newComment",
              title |-> "New Comment",
              message |-> <<env.commenter.name, " commented on your post">>,
              data |-> [ postId |-> env.post.id,
                         commentId |-> env.comment.id,
                         commenterId |-> env.commenter.id,
                         commenterName |-> env.commenter.name,
                         commentText |-> Cut(env.comment.text, CommentCut) ] ])

(***************************************************************************)
(* index.js: the three subscribed handlers. w is what a handler works on:  *)
(* store, now, calls and emitted as in the state; ran, caught and jobs as  *)
(* in turn; broken, the sockets on which io.to(...).emit throws; threw,    *)
(* whether an exception is on its way up. reg and usersArr are read only.  *)
(* The handlers of one event run within the millisecond now; cs[i] is what *)
(* Math.random() gives to the i-th addNotification call of the event.      *)
(***************************************************************************)
\* console.error in a catch block: the exception stops there
Catch(w, where, error) ==
  [w EXCEPT !.threw = FALSE, !.caught = Append(@, [error |-> error, in |-> where])]

\* a handler that pushes before it stores: a failed push stores nothing
StoreAndPush_pushFirst(w, reg, userId, notification, r) ==
  LET pushes == sendNotificationToUser(reg, userId, notification)
  IN IF \E i \in 1..Len(pushes) : pushes[i].to \in w.broken
     THEN [w EXCEPT !.threw = TRUE]
     ELSE [w EXCEPT
             !.store = addNotification(w.store, userId, notification,
                                       w.now, r, w.calls + 1).store,
             !.calls = w.calls + 1,
             !.emitted = w.emitted \o pushes]

\* addNotification(userId, notification); sendNotificationToUser(userId, notification, io):
\* the record is stored before the push, and a push that throws throws on
StoreAndPush(w, reg, userId, notification, r) ==
  LET stored == [w EXCEPT
                   !.store = addNotification(w.store, userId, notification,
                                             w.now, r, w.calls + 1).store,
                   !.calls = w.calls + 1]
      pushes == sendNotificationToUser(reg, userId, notification)
  IN IF \E i \in 1..Len(pushes) : pushes[i].to \in w.broken
     THEN [stored EXCEPT !.threw = TRUE]
     ELSE [stored EXCEPT !.emitted = w.emitted \o pushes]

\* a scan of the wrong array: user.followers.includes(author.id)
FollowersOf_byFollowers(usersArr, authorId) ==
  SelectSeq(usersArr, LAMBDA user : includes(user.followers, authorId))

\* users.filter(user => user.following && user.following.includes(author.id))
FollowersOf(usersArr, authorId) ==
  SelectSeq(usersArr, LAMBDA user : includes(user.following, authorId))

RECURSIVE ForEachFollower(_, _, _, _, _, _)
\* followers.forEach(...) from the i-th follower on; an exception ends it
ForEachFollower(w, reg, followers, data, cs, i) ==
  IF i > Len(followers) \/ w.threw THEN w
  ELSE ForEachFollower(
         StoreAndPush(w, reg, followers[i].id,
                      createPostNotification(data.post, data.author),
                      cs[i]),
         reg, followers, data, cs, i + 1)

\* author.id of a payload without author is a TypeError (index.js:85); for
\* the first follower, post.content of a payload without post and
\* post.content.substring of a post without content are TypeErrors in
\* createPostNotification (index.js:90); as any exception of the loop they
\* go to the catch of index.js:96
onNewPost(w, reg, usersArr, data, cs) ==
  IF "author" \notin DOMAIN data
  THEN Catch(w, "onNewPost", "TypeError")
  ELSE LET followers == FollowersOf(usersArr, data.author.id)
       IN IF Len(followers) = 0 THEN w
          ELSE IF "post" \notin DOMAIN data
          THEN Catch(w, "onNewPost", "TypeError")
          ELSE IF "content" \notin DOMAIN data.post
          THEN Catch(w, "onNewPost", "TypeError")
          ELSE LET out == ForEachFollower(w, reg, followers, data, cs, 1)
               IN IF out.threw THEN Catch(out, "onNewPost", "Error") ELSE out

\* a handler without the check of index.js:106
onNewLike_noSelfCheck(w, reg, usersArr, data, cs) ==
  StoreAndPush(w, reg, data.postAuthor.id,
               createLikeNotification(data.post, data.liker, data.postAuthor),
               cs[1])

\* a handler that notifies the liker
onNewLike_toLiker(w, reg, usersArr, data, cs) ==
  IF data.liker.id = data.postAuthor.id THEN w
  ELSE StoreAndPush(w, reg, data.liker.id,
                    createLikeNotification(data.post, data.liker, data.postAuthor),
                    cs[1])

\* liker.id or postAuthor.id of a payload without them is a TypeError
\* (index.js:106), post.id of a payload without post is one in
\* createLikeNotification (index.js:108); the catch is that of index.js:113
onNewLike(w, reg, usersArr, data, cs) ==
  IF {"liker", "postAuthor"} \ DOMAIN data # {}
  THEN Catch(w, "onNewLike", "TypeError")
  ELSE IF data.liker.id = data.postAuthor.id THEN w
  ELSE IF "post" \notin DOMAIN data
  THEN Catch(w, "onNewLike", "TypeError")
  ELSE LET out == StoreAndPush(w, reg, data.postAuthor.id,
                               createLikeNotification(data.post, data.liker,
                                                      data.postAuthor),
                               cs[1])
       IN IF out.threw THEN Catch(out, "onNewLike", "Error") ELSE out

\* commenter.id or postAuthor.id of a payload without them is a TypeError
\* (index.js:123); the throw of createCommentNotification and every other
\* one is caught at index.js:130
onNewComment(w, reg, usersArr, data, cs) ==
  IF {"commenter", "postAuthor"} \ DOMAIN data # {}
  THEN Catch(w, "onNewComment", "TypeError")
  ELSE IF data.commenter.id = data.postAuthor.id THEN w
  ELSE LET made == createCommentNotification(data.post, data.comment,
                                             data.commenter, data.postAuthor)
       IN IF made.ok
          THEN LET out == StoreAndPush(w, reg, data.postAuthor.id, made.value, cs[1])
               IN IF out.threw THEN Catch(out, "onNewComment", "Error") ELSE out
          ELSE Catch(w, "onNewComment", made.error)

(***************************************************************************)
(* services/redis.js: the in-process pub/sub. bus holds isConnected of the *)
(* three clients and, per channel, the listeners of the event emitter in   *)
(* the order they were added, each named by the callback it wraps.         *)
(***************************************************************************)
Channels == {"newPost", "newLike", "newComment"}

\* after index.js:78-133 has run: one listener per channel, all clients connected
InitialBus ==
  [ client |-> TRUE,
    publisher |-> TRUE,
    subscriber |-> TRUE,
    listeners |-> [ newPost |-> <<"onNewPost">>,
                    newLike |-> <<"onNewLike">>,
                    newComment |-> <<"onNewComment">> ],
    unsubscribed |-> {} ]

\* connectRedis: connect() on the three clients
connectRedis(b) ==
  [b EXCEPT !.client = TRUE, !.subscriber = TRUE, !.publisher = TRUE]

\* disconnectRedis: quit() on the three clients
disconnectRedis(b) ==
  [b EXCEPT !.client = FALSE, !.subscriber = FALSE, !.publisher = FALSE]

\* a subscription that takes the place of the ones before it
subscribeToChannel_replace(b, channel, callback) ==
  IF b.subscriber
  THEN [b EXCEPT !.listeners[channel] = <<callback>>,
                 !.unsubscribed = @ \ {channel}]
  ELSE b

\* subscribeToChannel: subscriber.subscribe adds the wrapper of the callback
\* when connected (redis.js:31-32), and does nothing otherwise
subscribeToChannel(b, channel, callback) ==
  IF b.subscriber
  THEN [b EXCEPT !.listeners[channel] = Append(@, callback),
                 !.unsubscribed = @ \ {channel}]
  ELSE b

\* unsubscribeFromChannel: subscriber.unsubscribe removes all listeners of
\* the channel when connected (redis.js:38-39), and does nothing otherwise
unsubscribeFromChannel(b, channel) ==
  IF b.subscriber
  THEN [b EXCEPT !.listeners[channel] = <<>>,
                 !.unsubscribed = @ \cup {channel}]
  ELSE [b EXCEPT !.unsubscribed = @ \cup {channel}]

\* JSON.stringify: undefined for undefined; the payloads hold numbers,
\* strings, arrays and objects of them, whose text is kept as the value
\* that reading it gives back
JSONstringify(message) ==
  IF message = Undefined THEN Undefined ELSE [json |-> message]

\* JSON.parse: undefined is read as the text "undefined", a SyntaxError
JSONparse(text) ==
  IF text = Undefined THEN Thrown("SyntaxError") ELSE Returned(text.json)

\* the callback registered under a name; "thrower" is a callback that is
\* not async and throws
RunHandler(name, w, reg, usersArr, data, cs) ==
  CASE name = "onNewPost" -> onNewPost(w, reg, usersArr, data, cs)
    [] name = "onNewLike" -> onNewLike(w, reg, usersArr, data, cs)
    [] name = "onNewComment" -> onNewComment(w, reg, usersArr, data, cs)
    [] name = "thrower" -> [w EXCEPT !.threw = TRUE]

\* the listener that subscribeToChannel adds (redis.js:87-94): parse, call
\* the callback, catch what either throws; ran gets the callbacks called
Listener(name, w, reg, usersArr, message, cs) ==
  LET parsedMessage == JSONparse(message)
  IN IF ~parsedMessage.ok
     THEN Catch(w, "subscribeToChannel", parsedMessage.error)
     ELSE LET out == RunHandler(name, [w EXCEPT !.ran = Append(@, name)],
                                reg, usersArr, parsedMessage.value, cs)
          IN IF out.threw THEN Catch(out, "subscribeToChannel", "Error") ELSE out

RECURSIVE Emit_untilError(_, _, _, _, _, _, _)
\* an emit that ends at the first listener that logged an error
Emit_untilError(ls, w, reg, usersArr, message, cs, i) ==
  IF i > Len(ls) \/ w.caught # <<>> THEN w
  ELSE Emit_untilError(ls, Listener(ls[i], w, reg, usersArr, message, cs),
                       reg, usersArr, message, cs, i + 1)

RECURSIVE Emit_newestFirst(_, _, _, _, _, _, _)
\* an emit that goes through the listeners from the last added to the first
Emit_newestFirst(ls, w, reg, usersArr, message, cs, i) ==
  IF i > Len(ls) THEN w
  ELSE Emit_newestFirst(ls, Listener(ls[Len(ls) + 1 - i], w, reg, usersArr, message, cs),
                        reg, usersArr, message, cs, i + 1)

RECURSIVE Emit(_, _, _, _, _, _, _)
\* eventEmitter.emit(channel, message): the listeners in the order they were
\* added, from the i-th on
Emit(ls, w, reg, usersArr, message, cs, i) ==
  IF i > Len(ls) THEN w
  ELSE Emit(ls, Listener(ls[i], w, reg, usersArr, message, cs),
            reg, usersArr, message, cs, i + 1)

\* what is left of publishMessage after its await: the log of redis.js:78
AfterAwait(channel) == [channel |-> channel, fn |-> "publishMessage", does |-> "log"]

\* a publish that puts the emit off to after the await
publishMessage_deferred(b, channel, message, w, reg, usersArr, cs) ==
  [w EXCEPT !.jobs = Append(@, [channel |-> channel, fn |-> "publishMessage",
                                does |-> "emit"])]

\* a publish that emits whether or not the publisher is connected
publishMessage_always(b, channel, message, w, reg, usersArr, cs) ==
  LET text == JSONstringify(message)
      out == Emit(b.listeners[channel], w, reg, usersArr, text, cs, 1)
  IN IF out.threw
     THEN Catch(out, "publishMessage", "Error")
     ELSE [out EXCEPT !.jobs = Append(@, AfterAwait(channel))]

\* publishMessage(channel, message): publisher.publish is called, and with
\* it the emit when connected, before publishMessage awaits; the handlers
\* are async functions without an await, so that each runs to its end
\* within the emit
publishMessage(b, channel, message, w, reg, usersArr, cs) ==
  LET text == JSONstringify(message)
      out == IF b.publisher
             THEN Emit(b.listeners[channel], w, reg, usersArr, text, cs, 1)
             ELSE w
  IN IF out.threw
     THEN Catch(out, "publishMessage", "Error")
     ELSE [out EXCEPT !.jobs = Append(@, AfterAwait(channel))]

(***************************************************************************)
(* The state after the modules are loaded                                  *)
(***************************************************************************)
\* a turn without publish
NoTurn == [caught |-> <<>>, ran |-> <<>>, jobs |-> <<>>]

SocketIds == 1..NumSockets

\* the room every socket is in from its connection on, named by socket.id
SocketRoom(s) == <<"sid", s>>

\* `user_${userId}`
UserRoom(u) == <<"user_", u>>

\* the sockets io.to(socketId).emit reaches: those connected and in the room
Receivers(sockTable, socketId) ==
  {s \in DOMAIN sockTable : /\ sockTable[s].state = "open"
                            /\ SocketRoom(socketId) \in sockTable[s].rooms}

Init ==
  /\ users = InitialUsers
  /\ posts = InitialPosts
  /\ notifications = << >>
  /\ userSockets = << >>
  /\ sockets = [s \in SocketIds |-> [userId |-> 0, state |-> "new", rooms |-> {}]]
  /\ bus = InitialBus
  /\ now = 0
  /\ calls = 0
  /\ created = [posts |-> 0, comments |-> 0]
  /\ lastReg = [u \in UserIds |-> 0]
  /\ ret = NoCall
  /\ emitted = <<>>
  /\ turn = NoTurn

\* a millisecond passes: Date.now() does not go back, and the model stops the
\* clock at MaxNow
Tick ==
  /\ now < MaxNow
  /\ now' = now + 1
  /\ ret' = NoCall
  /\ emitted' = <<>>
  /\ turn' = NoTurn
  /\ UNCHANGED <<users, posts, notifications, userSockets, sockets, bus, calls, created, lastReg>>

(***************************************************************************)
(* The store's functions called one at a time (module.exports of           *)
(* services/notifications.js), from a store that earlier events filled.    *)
(***************************************************************************)
UserRef(u) == [id |-> u.id, type |-> u.type, name |-> u.name]

\* the list that n toggles to "liked" of user 2 on post 1 leave to user 1,
\* one per millisecond before the run starts
LoadedList(n) ==
  [i \in 1..n |->
     NewNotification(createLikeNotification(InitialPosts[1], UserRef(InitialUsers[2]),
                                            UserRef(InitialUsers[1])),
                     0 - i, 0, 0 - i)]

LoadedStores == {(1 :> LoadedList(n)) : n \in {Capacity - 1, Capacity}}

InitLoaded ==
  /\ users = InitialUsers
  /\ posts = InitialPosts
  /\ notifications \in LoadedStores
  /\ userSockets = << >>
  /\ sockets = [s \in SocketIds |-> [userId |-> 0, state |-> "new", rooms |-> {}]]
  /\ bus = InitialBus
  /\ now = 0
  /\ calls = 0
  /\ created = [posts |-> 0, comments |-> 0]
  /\ lastReg = [u \in UserIds |-> 0]
  /\ ret = NoCall
  /\ emitted = <<>>
  /\ turn = NoTurn

\* the draft a caller hands over for user u: user 1, the author of post 1,
\* gets the like of user 2; user 2 gets the post of user 1, whom they follow
DraftFor(u) ==
  IF u = InitialPosts[1].userId
  THEN createLikeNotification(InitialPosts[1], UserRef(InitialUsers[2]), UserRef(InitialUsers[1]))
  ELSE createPostNotification(InitialPosts[1], UserRef(InitialUsers[1]))

\* the ids a caller names: those of the newest and of the oldest record
\* of each list, and one that no record has
Named(list) == {i \in 1..Len(list) : i = 1 \/ i = Len(list)}

StoredIds == UNION {{notifications[u][i].id : i \in Named(notifications[u])} :
                    u \in DOMAIN notifications}

AbsentId == (MaxNow + 1) * Frac

Limits == {1, DefaultLimit}

StoreUnchanged == UNCHANGED <<users, posts, userSockets, sockets, bus, created, now, lastReg>>

CallAddNotification(u, d) ==
  /\ calls < MaxCalls
  /\ \E r \in 0..(Frac - 1) :
       LET out == addNotification(notifications, u, d, now, r, calls + 1)
       IN /\ notifications' = out.store
          /\ ret' = Call("addNotification", u, d, out.result)
  /\ calls' = calls + 1
  /\ emitted' = <<>>
  /\ turn' = NoTurn
  /\ StoreUnchanged

CallGetNotifications(u, limit) ==
  /\ ret' = Call("getNotifications", u, limit, getNotifications(notifications, u, limit))
  /\ emitted' = <<>>
  /\ turn' = NoTurn
  /\ UNCHANGED <<notifications, calls>>
  /\ StoreUnchanged

CallGetUnreadCount(u) ==
  /\ ret' = Call("getUnreadCount", u, None, getUnreadCount(notifications, u))
  /\ emitted' = <<>>
  /\ turn' = NoTurn
  /\ UNCHANGED <<notifications, calls>>
  /\ StoreUnchanged

CallMarkAsRead(u, id) ==
  LET out == markAsRead(notifications, u, Number(id))
  IN /\ notifications' = out.store
     /\ ret' = Call("markAsRead", u, id, out.result)
     /\ emitted' = <<>>
     /\ turn' = NoTurn
     /\ UNCHANGED calls
     /\ StoreUnchanged

CallMarkAllAsRead(u) ==
  LET out == markAllAsRead(notifications, u)
  IN /\ notifications' = out.store
     /\ ret' = Call("markAllAsRead", u, None, out.result)
     /\ emitted' = <<>>
     /\ turn' = NoTurn
     /\ UNCHANGED calls
     /\ StoreUnchanged

NextStore ==
  \/ Tick
  \/ \E u \in UserIds : CallAddNotification(u, DraftFor(u))
  \/ \E u \in UserIds, limit \in Limits : CallGetNotifications(u, limit)
  \/ \E u \in UserIds : CallGetUnreadCount(u)
  \/ \E u \in UserIds, id \in StoredIds \cup {AbsentId} : CallMarkAsRead(u, id)
  \/ \E u \in UserIds : CallMarkAllAsRead(u)

\* the store's functions on a new store
SpecStore == Init /\ [][NextStore]_vars

(***************************************************************************)
(* The request handlers and the socket events                              *)
(***************************************************************************)
\* what a turn starts from: the state, no push made, nothing run, caught or
\* left for later, an io whose emit does not throw
W0 == [ now |-> now, calls |-> calls, emitted |-> <<>>, store |-> notifications,
        threw |-> FALSE, caught |-> <<>>, broken |-> {}, ran |-> <<>>, jobs |-> <<>> ]

Commit(w) ==
  /\ notifications' = w.store
  /\ now' = now
  /\ calls' = w.calls
  /\ emitted' = w.emitted
  /\ turn' = [caught |-> w.caught, ran |-> w.ran, jobs |-> w.jobs]

\* what Math.random() gives to the addNotification calls of one event, at
\* most one call per user; the values no call reads are 0
Choices == [1..Len(users) -> 0..(Frac - 1)]

Chained(cs, used) == \A i \in 1..Len(cs) : i > used => cs[i] = 0

\* a route that goes on without the publishMessage call
Publish_skipped(channel, message, usersArr) == Commit(W0)

\* a route calls publishMessage and goes on after the handlers have run
Publish(channel, message, usersArr) ==
  \E cs \in Choices :
    LET w == publishMessage(bus, channel, message, W0, userSockets, usersArr, cs)
    IN /\ Chained(cs, w.calls - calls)
       /\ w.calls <= MaxCalls
       /\ Commit(w)

\* the contents and comment texts the clients send
Contents == {Str(5, "c"), Str(PostCut + 1, "c")}

Texts == {Str(CommentCut, "x") \o <<" ">>, Str(CommentCut + 1, "x")}

\* POST /api/posts by the user of the token
CreatePost(u, content) ==
  LET me == findById(users, u)
      newId == IF Len(posts) > 0 THEN MaxId(posts) + 1 ELSE 1
      newPost == [id |-> newId, userId |-> u, content |-> trim(content),
                  likes |-> <<>>, comments |-> <<>>]
  IN /\ created.posts < MaxNewPosts
     /\ Len(trim(content)) > 0 /\ Len(content) <= 1000
     /\ posts' = Append(posts, newPost)
     /\ created' = [created EXCEPT !.posts = @ + 1]
     /\ IF me.type = "celebrity"
        THEN Publish("newPost", [post |-> newPost, author |-> UserRef(me)], users)
        ELSE Commit(W0)
     /\ ret' = Call("createPost", u, content, newPost)
     /\ UNCHANGED <<users, userSockets, sockets, bus, lastReg>>

\* DELETE /api/posts/:id by the user of the token: posts.splice(postIndex, 1)
DeletePost(u, postId) ==
  LET k == findIndexById(posts, postId)
  IN /\ IF k = 0
        THEN /\ ret' = Call("deletePost", u, postId, [status |-> 404])
             /\ UNCHANGED posts
        ELSE IF posts[k].userId # u
        THEN /\ ret' = Call("deletePost", u, postId, [status |-> 403])
             /\ UNCHANGED posts
        ELSE /\ posts' = SubSeq(posts, 1, k - 1) \o SubSeq(posts, k + 1, Len(posts))
             /\ ret' = Call("deletePost", u, postId, [status |-> 200])
     /\ Commit(W0)
     /\ UNCHANGED <<users, userSockets, sockets, bus, created, lastReg>>

\* a toggle that publishes newLike when it ends not liked as well
ToggleLike_publishBoth(u, postId) ==
  LET k == findIndexById(posts, postId)
  IN IF k = 0
     THEN /\ ret' = Call("toggleLike", u, postId, [status |-> 404])
          /\ Commit(W0)
          /\ UNCHANGED <<users, posts, userSockets, sockets, bus, created, lastReg>>
     ELSE LET liked == includes(posts[k].likes, u)
              post == [posts[k] EXCEPT !.likes = IF liked THEN without(@, u)
                                                  ELSE Append(@, u)]
          IN /\ posts' = [posts EXCEPT ![k] = post]
             /\ IF findIndexById(users, u) # 0
                          /\ findIndexById(users, post.userId) # 0
                THEN Publish("newLike",
                             [ post |-> post,
                               liker |-> UserRef(findById(users, u)),
                               postAuthor |-> UserRef(findById(users, post.userId)) ],
                             users)
                ELSE Commit(W0)
             /\ ret' = Call("toggleLike", u, postId, [status |-> 200, liked |-> ~liked])
             /\ UNCHANGED <<users, userSockets, sockets, bus, created, lastReg>>

\* POST /api/posts/:id/like
ToggleLike(u, postId) ==
  LET k == findIndexById(posts, postId)
  IN IF k = 0
     THEN /\ ret' = Call("toggleLike", u, postId, [status |-> 404])
          /\ Commit(W0)
          /\ UNCHANGED <<users, posts, userSockets, sockets, bus, created, lastReg>>
     ELSE LET liked == includes(posts[k].likes, u)
              post == [posts[k] EXCEPT !.likes = IF liked THEN without(@, u)
                                                  ELSE Append(@, u)]
          IN /\ posts' = [posts EXCEPT ![k] = post]
             /\ IF ~liked /\ findIndexById(users, u) # 0
                          /\ findIndexById(users, post.userId) # 0
                THEN Publish("newLike",
                             [ post |-> post,
                               liker |-> UserRef(findById(users, u)),
                               postAuthor |-> UserRef(findById(users, post.userId)) ],
                             users)
                ELSE Commit(W0)
             /\ ret' = Call("toggleLike", u, postId, [status |-> 200, liked |-> ~liked])
             /\ UNCHANGED <<users, userSockets, sockets, bus, created, lastReg>>

\* POST /api/posts/:id/comment
AddComment(u, postId, text) ==
  LET k == findIndexById(posts, postId)
  IN /\ created.comments < MaxNewComments
     /\ Len(trim(text)) > 0 /\ Len(text) <= 500
     /\ IF k = 0
        THEN /\ ret' = Call("addComment", u, postId, [status |-> 404])
             /\ Commit(W0)
             /\ UNCHANGED <<users, posts, userSockets, sockets, bus, created, lastReg>>
        ELSE LET cms == posts[k].comments
                 newComment == [ id |-> IF Len(cms) > 0 THEN MaxId(cms) + 1 ELSE 1,
                                 userId |-> u,
                                 text |-> trim(text) ]
                 post == [posts[k] EXCEPT !.comments = Append(@, newComment)]
             IN /\ posts' = [posts EXCEPT ![k] = post]
                /\ created' = [created EXCEPT !.comments = @ + 1]
                /\ IF findIndexById(users, u) # 0 /\ findIndexById(users, post.userId) # 0
                   THEN Publish("newComment",
                                [ post |-> post,
                                  postAuthor |-> UserRef(findById(users, post.userId)),
                                  commenter |-> UserRef(findById(users, u)),
                                  comment |-> newComment ],
                                users)
                   ELSE Commit(W0)
                /\ ret' = Call("addComment", u, postId,
                               [comment |-> newComment, status |-> 201])
                /\ UNCHANGED <<users, userSockets, sockets, bus, lastReg>>

\* a toggle that leaves the followers of the target as they are
toggleFollow_oneSided(usersArr, current, target) ==
  LET c == findIndexById(usersArr, current)
      isFollowing == includes(usersArr[c].following, target)
  IN IF isFollowing
     THEN [usersArr EXCEPT ![c].following = without(@, target)]
     ELSE [usersArr EXCEPT ![c].following = Append(@, target)]

\* the follow or unfollow of index.js:309-319 and routes/users.js:75-85
toggleFollow(usersArr, current, target) ==
  LET c == findIndexById(usersArr, current)
      t == findIndexById(usersArr, target)
      isFollowing == includes(usersArr[c].following, target)
  IN IF isFollowing
     THEN [usersArr EXCEPT ![c].following = without(@, target),
                           ![t].followers = without(@, current)]
     ELSE [usersArr EXCEPT ![c].following = Append(@, target),
                           ![t].followers = Append(@, current)]

\* POST /follow without the check of index.js:304
Follow_selfAllowed(u, target) ==
  /\ IF findIndexById(users, u) = 0 \/ findIndexById(users, target) = 0
     THEN /\ ret' = Call("follow", u, target, [status |-> 404])
          /\ UNCHANGED users
     ELSE /\ users' = toggleFollow(users, u, target)
          /\ ret' = Call("follow", u, target, [status |-> 200])
  /\ Commit(W0)
  /\ UNCHANGED <<posts, userSockets, sockets, bus, created, lastReg>>

\* POST /follow (index.js)
Follow(u, target) ==
  /\ IF findIndexById(users, u) = 0 \/ findIndexById(users, target) = 0
     THEN /\ ret' = Call("follow", u, target, [status |-> 404])
          /\ UNCHANGED users
     ELSE IF u = target
     THEN /\ ret' = Call("follow", u, target, [status |-> 400])
          /\ UNCHANGED users
     ELSE /\ users' = toggleFollow(users, u, target)
          /\ ret' = Call("follow", u, target, [status |-> 200])
  /\ Commit(W0)
  /\ UNCHANGED <<posts, userSockets, sockets, bus, created, lastReg>>

\* POST /api/users/:userId/follow (routes/users.js)
FollowUser(u, target) ==
  /\ IF findIndexById(users, target) = 0 \/ findIndexById(users, u) = 0
     THEN /\ ret' = Call("followUser", u, target, [status |-> 404])
          /\ UNCHANGED users
     ELSE IF findById(users, u).type # "public" \/ findById(users, target).type # "celebrity"
     THEN /\ ret' = Call("followUser", u, target, [status |-> 403])
          /\ UNCHANGED users
     ELSE /\ users' = toggleFollow(users, u, target)
          /\ ret' = Call("followUser", u, target, [status |-> 200])
  /\ Commit(W0)
  /\ UNCHANGED <<posts, userSockets, sockets, bus, created, lastReg>>

\* io.on('connection'): the socket ids are given out in the order 1, 2, ...
Connect(s) ==
  /\ sockets[s].state = "new"
  /\ \A s2 \in SocketIds : s2 < s => sockets[s2].state # "new"
  /\ sockets' = [sockets EXCEPT ![s].state = "open", ![s].rooms = {SocketRoom(s)}]
  /\ ret' = Call("connection", 0, s, None)
  /\ Commit(W0)
  /\ UNCHANGED <<users, posts, userSockets, bus, created, lastReg>>

\* socket.on('authenticate') with a token of user u
Authenticate(s, u) ==
  /\ sockets[s].state = "open"
  /\ userSockets' = registerUserSocket(userSockets, u, s)
  /\ sockets' = [sockets EXCEPT ![s].userId = u, ![s].rooms = @ \cup {UserRoom(u)}]
  /\ lastReg' = [lastReg EXCEPT ![u] = s]
  /\ ret' = Call("authenticate", u, s, getUnreadCount(notifications, u))
  /\ Commit(W0)
  /\ UNCHANGED <<users, posts, bus, created>>

\* a join that registers the socket for the user it names
Join_register(s, u) ==
  /\ sockets[s].state = "open"
  /\ sockets' = [sockets EXCEPT ![s].rooms = @ \cup {UserRoom(u)}]
  /\ userSockets' = registerUserSocket(userSockets, u, s)
  /\ ret' = Call("join", u, s, None)
  /\ Commit(W0)
  /\ UNCHANGED <<users, posts, bus, created, lastReg>>

\* socket.on('join') with the user id the client sends: no token is asked
Join(s, u) ==
  /\ sockets[s].state = "open"
  /\ sockets' = [sockets EXCEPT ![s].rooms = @ \cup {UserRoom(u)}]
  /\ ret' = Call("join", u, s, None)
  /\ Commit(W0)
  /\ UNCHANGED <<users, posts, userSockets, bus, created, lastReg>>

\* socket.on('disconnect'): the socket has left its rooms
Disconnect(s) ==
  /\ sockets[s].state = "open"
  /\ userSockets' = IF sockets[s].userId # 0
                    THEN unregisterUserSocket(userSockets, sockets[s].userId)
                    ELSE userSockets
  /\ sockets' = [sockets EXCEPT ![s].state = "closed", ![s].rooms = {}]
  /\ ret' = Call("disconnect", sockets[s].userId, s, None)
  /\ Commit(W0)
  /\ UNCHANGED <<users, posts, bus, created, lastReg>>

\* process.on('SIGINT'): disconnectRedis, then server.close, which lets the
\* connections that are open go on until they end
Shutdown ==
  /\ bus' = disconnectRedis(bus)
  /\ ret' = Call("SIGINT", 0, None, None)
  /\ Commit(W0)
  /\ UNCHANGED <<users, posts, userSockets, sockets, created, lastReg>>

PostIds == {posts[i].id : i \in 1..Len(posts)}

\* the follow graph, the posts of its users, and the shutdown
Next ==
  \/ \E u \in UserIds, content \in Contents : CreatePost(u, content)
  \/ \E u \in UserIds, target \in UserIds : Follow(u, target)
  \/ \E u \in UserIds, target \in UserIds : FollowUser(u, target)
  \/ Shutdown

Spec == Init /\ [][Next]_vars

\* the likes and the comments, with both users connected: socket s is the
\* one user s authenticated on
InitOnline ==
  /\ users = InitialUsers
  /\ posts = InitialPosts
  /\ notifications = << >>
  /\ userSockets = [u \in UserIds |-> u]
  /\ sockets = [s \in SocketIds |->
                  [userId |-> IF s \in UserIds THEN s ELSE 0,
                   state |-> IF s \in UserIds THEN "open" ELSE "new",
                   rooms |-> IF s \in UserIds THEN {SocketRoom(s), UserRoom(s)}
                             ELSE {}]]
  /\ bus = InitialBus
  /\ now = 0
  /\ calls = 0
  /\ created = [posts |-> 0, comments |-> 0]
  /\ lastReg = [u \in UserIds |-> u]
  /\ ret = NoCall
  /\ emitted = <<>>
  /\ turn = NoTurn

NextLikes ==
  \/ \E u \in UserIds, id \in PostIds : ToggleLike(u, id)
  \/ \E u \in UserIds, id \in PostIds, text \in Texts : AddComment(u, id, text)

SpecLikes == InitOnline /\ [][NextLikes]_vars

\* the three routes of routes/posts.js that publish, with the likes and the
\* comments on the first post, and the shutdown
NextRoutes ==
  \/ \E u \in UserIds, content \in Contents : CreatePost(u, content)
  \/ \E u \in UserIds : ToggleLike(u, InitialPosts[1].id)
  \/ \E u \in UserIds : AddComment(u, InitialPosts[1].id, Str(CommentCut + 1, "x"))
  \/ Shutdown

SpecRoutes == InitOnline /\ [][NextRoutes]_vars

\* posts created, liked and deleted
NextPosts ==
  \/ \E u \in UserIds : CreatePost(u, Str(5, "c"))
  \/ \E u \in UserIds, id \in PostIds : ToggleLike(u, id)
  \/ \E u \in UserIds, id \in PostIds : DeletePost(u, id)

SpecPosts == InitOnline /\ [][NextPosts]_vars

\* the socket connections, and the likes of user 2 on the first post that push to them
NextSockets ==
  \/ \E s \in SocketIds : Connect(s)
  \/ \E s \in SocketIds, u \in UserIds : Authenticate(s, u)
  \/ \E s \in SocketIds : Disconnect(s)
  \/ ToggleLike(InitialUsers[2].id, InitialPosts[1].id)

SpecSockets == Init /\ [][NextSockets]_vars

\* the connections with their join events for the room of user 1, and the
\* likes of user 2 on the post of user 1
NextRooms ==
  \/ \E s \in SocketIds : Connect(s)
  \/ \E s \in SocketIds, u \in UserIds : Authenticate(s, u)
  \/ \E s \in SocketIds : Join(s, InitialUsers[1].id)
  \/ \E s \in SocketIds : Disconnect(s)
  \/ ToggleLike(InitialUsers[2].id, InitialPosts[1].id)

SpecRooms == Init /\ [][NextRooms]_vars

(***************************************************************************)
(* services/redis.js as a module: its functions called in any order, with  *)
(* the handlers of index.js subscribed, on a data/users.js that has one    *)
(* more follower of the celebrity. Both followers are connected.           *)
(***************************************************************************)
\* listeners on one channel
MaxListeners == 2

\* addNotification calls in a behaviour of the module
MaxBusCalls == 3

FanUsers ==
  << [InitialUsers[1] EXCEPT !.followers = <<2, 3>>],
     InitialUsers[2],
     [id |-> 3, type |-> "public", name |-> "Third Public",
      followers |-> <<>>, following |-> <<1>>] >>

\* socket 1 is that of user 2, socket 2 that of user 3
InitBus ==
  /\ users = FanUsers
  /\ posts = InitialPosts
  /\ notifications = << >>
  /\ userSockets = (2 :> 1) @@ (3 :> 2)
  /\ sockets = [s \in SocketIds |->
                  [userId |-> IF s <= 2 THEN s + 1 ELSE 0,
                   state |-> IF s <= 2 THEN "open" ELSE "new",
                   rooms |-> IF s <= 2 THEN {SocketRoom(s), UserRoom(s + 1)}
                             ELSE {}]]
  /\ bus = InitialBus
  /\ now = 0
  /\ calls = 0
  /\ created = [posts |-> 0, comments |-> 0]
  /\ lastReg = [u \in UserIds |-> IF u = 2 THEN 1 ELSE 0]
  /\ ret = NoCall
  /\ emitted = <<>>
  /\ turn = NoTurn

\* the payloads the routes build: the first post by its author (posts.js:217),
\* a like of it by user 2 (posts.js:324), its comment by user 2 (posts.js:399)
MessageFor(channel) ==
  CASE channel = "newPost" ->
         [post |-> InitialPosts[1], author |-> UserRef(InitialUsers[1])]
    [] channel = "newLike" ->
         [post |-> [InitialPosts[1] EXCEPT !.likes = <<2>>],
          liker |-> UserRef(InitialUsers[2]),
          postAuthor |-> UserRef(InitialUsers[1])]
    [] channel = "newComment" ->
         [post |-> InitialPosts[1],
          postAuthor |-> UserRef(InitialUsers[1]),
          commenter |-> UserRef(InitialUsers[2]),
          comment |-> InitialPosts[1].comments[1]]

\* the callbacks a caller subscribes: a handler of index.js and one that throws
Callbacks == {"onNewLike", "thrower"}

\* the channels published on and unsubscribed from
BusChannels == {"newPost", "newLike"}

\* the sockets whose emit can throw: that of the first follower
Breakable == {1}

BusUnchanged == UNCHANGED <<users, posts, userSockets, sockets, created, lastReg>>

\* subscribeToChannel(channel, callback)
SubscribeToChannel(channel, callback) ==
  /\ Len(bus.listeners[channel]) < MaxListeners
  /\ bus' = subscribeToChannel(bus, channel, callback)
  /\ ret' = Call("subscribeToChannel", 0, [channel |-> channel, callback |-> callback], None)
  /\ Commit(W0)
  /\ BusUnchanged

\* unsubscribeFromChannel(channel)
UnsubscribeFromChannel(channel) ==
  /\ bus' = unsubscribeFromChannel(bus, channel)
  /\ ret' = Call("unsubscribeFromChannel", 0, [channel |-> channel], None)
  /\ Commit(W0)
  /\ BusUnchanged

\* the draws of Math.random in the ids of a turn: all of them the least one
BusChoices == {[i \in 1..Len(users) |-> 0]}

\* publishMessage(channel, message) in a turn in which io.to(s).emit throws
\* for the sockets s of broken
PublishMessage(channel, message, broken) ==
  /\ \E cs \in BusChoices :
       LET w == publishMessage(bus, channel, message, [W0 EXCEPT !.broken = broken],
                               userSockets, users, cs)
       IN /\ Chained(cs, w.calls - calls)
          /\ w.calls <= MaxBusCalls
          /\ Commit(w)
          /\ ret' = Call("publishMessage", 0,
                         [message |-> message, broken |-> broken, channel |-> channel],
                         IF w.threw THEN "rejected" ELSE "resolved")
  /\ UNCHANGED bus
  /\ BusUnchanged

\* connectRedis()
Reconnect ==
  /\ bus' = connectRedis(bus)
  /\ ret' = Call("connectRedis", 0, None, None)
  /\ Commit(W0)
  /\ BusUnchanged

NextBus ==
  \/ \E callback \in Callbacks : SubscribeToChannel("newLike", callback)
  \/ \E channel \in BusChannels : UnsubscribeFromChannel(channel)
  \/ \E channel \in BusChannels, broken \in SUBSET Breakable :
       \E message \in {MessageFor(channel), Undefined} :
          PublishMessage(channel, message, broken)
  \/ Shutdown
  \/ Reconnect

SpecBus == InitBus /\ [][NextBus]_vars

\* like requests of the three users on the first post, each one a turn of
\* the event loop: the route and the handlers it reaches through
\* publishMessage have no await before the store is written
FanIds == {FanUsers[i].id : i \in 1..Len(FanUsers)}

NextTwoLikes ==
  \/ Tick
  \/ \E u \in FanIds : ToggleLike(u, InitialPosts[1].id)

SpecTwoLikes == InitBus /\ [][NextTwoLikes]_vars

\* a record without one of its fields
Without(object, field) ==
  [f \in DOMAIN object \ {field} |-> object[f]]

\* the payloads of a channel that lack a field its handler reads: one of the
\* objects of the payload, the name of the author or of the liker, the
\* content of the post
Malformed(channel) ==
  LET m == MessageFor(channel)
  IN {Without(m, f) : f \in DOMAIN m}
       \cup (IF channel = "newPost"
              THEN {[m EXCEPT !.author = Without(m.author, "name")],
                    [m EXCEPT !.post = Without(m.post, "content")]}
              ELSE {[m EXCEPT !.liker = Without(m.liker, "name")]})

\* the channel events of index.js:77-116 with and without their fields
NextEvents ==
  \/ Tick
  \/ \E channel \in BusChannels :
       \E message \in Malformed(channel) \cup {MessageFor(channel)} :
          PublishMessage(channel, message, {})

SpecEvents == InitBus /\ [][NextEvents]_vars

\* GET /api/notifications: getNotifications without a limit, which is then
\* 20, and getUnreadCount
GetNotifications(u) ==
  /\ ret' = Call("notifications", u, None,
                 [ notifications |-> getNotifications(notifications, u, DefaultLimit),
                   status |-> 200,
                   unreadCount |-> getUnreadCount(notifications, u) ])
  /\ Commit(W0)
  /\ UNCHANGED <<users, posts, userSockets, sockets, bus, created, lastReg>>

\* the limits a caller passes: none of the list, one entry, the default, and
\* more than a list can hold
ReadLimits == {0, 1, DefaultLimit, Capacity + 1}

\* the reads of a store whose list of user 1 is full or one short, between
\* the calls that add to it and mark it read
NextReads ==
  \/ \E u \in UserIds : CallAddNotification(u, DraftFor(u))
  \/ \E u \in UserIds, id \in StoredIds \cup {AbsentId} : CallMarkAsRead(u, id)
  \/ \E u \in UserIds : CallMarkAllAsRead(u)
  \/ \E u \in UserIds, limit \in ReadLimits : CallGetNotifications(u, limit)
  \/ \E u \in UserIds : CallGetUnreadCount(u)
  \/ \E u \in UserIds : GetNotifications(u)

SpecReads == InitLoaded /\ [][NextReads]_vars

\* POST /api/notifications/:id/read, the client having put the text of the
\* id in the path: req.params.id is that text, handed to markAsRead as it is
MarkNotificationRead(u, id) ==
  LET out == markAsRead(notifications, u, String(id))
  IN /\ ret' = Call("markNotificationRead", u, id,
                    [status |-> IF out.result THEN 200 ELSE 404])
     /\ Commit([W0 EXCEPT !.store = out.store])
     /\ UNCHANGED <<users, posts, userSockets, sockets, bus, created, lastReg>>

\* POST /api/notifications/read-all
MarkAllNotificationsRead(u) ==
  LET out == markAllAsRead(notifications, u)
  IN /\ ret' = Call("markAllNotificationsRead", u, None, [status |-> 200])
     /\ Commit([W0 EXCEPT !.store = out.store])
     /\ UNCHANGED <<users, posts, userSockets, sockets, bus, created, lastReg>>

\* the notification routes of index.js on a store that addNotification fills
NextInbox ==
  \/ Tick
  \/ \E u \in UserIds : CallAddNotification(u, DraftFor(u))
  \/ \E u \in UserIds : GetNotifications(u)
  \/ \E u \in UserIds, id \in StoredIds \cup {AbsentId} : MarkNotificationRead(u, id)
  \/ \E u \in UserIds : MarkAllNotificationsRead(u)

SpecInbox == Init /\ [][NextInbox]_vars

\* the calls that change a store whose list of user 1 is full or one short
NextWrites ==
  \/ \E u \in UserIds : CallAddNotification(u, DraftFor(u))
  \/ \E u \in UserIds, id \in StoredIds \cup {AbsentId} : CallMarkAsRead(u, id)
  \/ \E u \in UserIds : CallMarkAllAsRead(u)

SpecWrites == InitLoaded /\ [][NextWrites]_vars

\* the calls that fill a store and mark it read, the likes of the first
\* post, and the shutdown
NextLoaded ==
  \/ \E u \in UserIds : CallAddNotification(u, DraftFor(u))
  \/ \E u \in UserIds : CallMarkAllAsRead(u)
  \/ \E u \in UserIds : ToggleLike(u, InitialPosts[1].id)
  \/ Shutdown

\* the store's functions on a store whose list of user 1 is full or one short
SpecLoaded == InitLoaded /\ [][NextLoaded]_vars

(***************************************************************************)
(* The properties                                                          *)
(***************************************************************************)
ListOf(store, u) == IF has(store, u) THEN store[u] ELSE <<>>

\* the step added a notification for u: a direct call for u, or a like that
\* ended in the liked state by another user on a post of u, published while
\* the publisher was connected
InsertedFor(u) ==
  \/ ret'.op = "addNotification" /\ ret'.user = u
  \/ /\ ret'.op = "toggleLike"
     /\ bus.publisher
     /\ ret'.result.status = 200
     /\ ret'.result.liked
     /\ ret'.user # u
     /\ findById(posts, ret'.arg).userId = u

\* C1: no list ever holds more than 50 notifications, and an insert into a
\* list of 50 leaves the new record, unread, in front of the 49 newest of the
\* earlier ones, as they were: the oldest is dropped, read or not.
C1_Capacity ==
  /\ \A u \in DOMAIN notifications : Len(notifications[u]) <= 50
  /\ [][ /\ \A u \in DOMAIN notifications' : Len(notifications'[u]) <= 50
         /\ \A u \in UserIds :
              (InsertedFor(u) /\ Len(ListOf(notifications, u)) = 50)
              => /\ Len(notifications'[u]) = 50
                 /\ notifications'[u][1].seq = calls + 1
                 /\ ~notifications'[u][1].read
                 /\ \A i \in 1..49 : notifications'[u][i + 1] = notifications[u][i]
       ]_vars

\* a like has been put into the full list of user 1: the list holds 50, and
\* its oldest record is newer than the 49th of the list the run started with
C1_Witness ==
  /\ ret.op = "toggleLike"
  /\ ret.result.liked
  /\ ret.user = 2
  /\ bus.publisher
  /\ calls >= 1
  /\ Len(ListOf(notifications, 1)) = 50
  /\ notifications[1][1].seq = calls
  /\ notifications[1][50].seq > 0 - 49

\* C2: every list is newest first: of two stored records of one user, the
\* one of the later addNotification call is at the smaller index; the marks
\* leave the order as it is.
C2_NewestFirst ==
  \A u \in DOMAIN notifications :
    \A i, j \in 1..Len(notifications[u]) :
      i < j => notifications[u][i].seq > notifications[u][j].seq

\* a mark has just been made on a list of two records of this run
C2_Witness ==
  /\ ret.op \in {"markAsRead", "markAllAsRead"}
  /\ ret.result = TRUE
  /\ Len(ListOf(notifications, ret.user)) >= 2
  /\ notifications[ret.user][1].seq = 2
  /\ notifications[ret.user][2].seq = 1

Elements(arr) == {arr[i] : i \in 1..Len(arr)}

\* the records of u's list after the step that the step created
Fresh(u) ==
  {i \in 1..Len(ListOf(notifications', u)) : notifications'[u][i].seq > calls}

\* C3: when a celebrity A creates a post while the publisher is connected,
\* which publishes newPost, and F is the set of A's followers at that
\* moment, the step creates exactly one
\* notification for each user of F, of type newPost with the id of the post
\* and the id of A, and none for A or for a user outside F, whose lists stay
\* as they were.
C3_FanOut ==
  [][ (/\ ret'.op = "createPost"
       /\ findById(users, ret'.user).type = "celebrity"
       /\ bus.publisher)
      => LET A == ret'.user
             F == Elements(findById(users, A).followers)
         IN /\ A \notin F
            /\ \A u \in UserIds :
                 IF u \in F
                 THEN /\ Cardinality(Fresh(u)) = 1
                      /\ \A i \in Fresh(u) :
                           /\ notifications'[u][i].type = "newPost"
                           /\ notifications'[u][i].data.postId = ret'.result.id
                           /\ notifications'[u][i].data.authorId = A
                 ELSE /\ Fresh(u) = {}
                      /\ ListOf(notifications', u) = ListOf(notifications, u)
    ]_vars

\* user 1 has created a post while user 2 followed them: user 2 holds its
\* notification and user 1 holds none
C3_Witness ==
  /\ ret.op = "createPost"
  /\ ret.user = 1
  /\ bus.publisher
  /\ includes(users[1].followers, 2)
  /\ ~has(notifications, 1)
  /\ Len(ListOf(notifications, 2)) = 1
  /\ notifications[2][1].data.postId = ret.result.id

\* the step was a like or a comment that the route accepted
Accepted(op) ==
  /\ ret'.op = op
  /\ ret'.result.status \in {200, 201}

\* C4: a like or a comment by the author of the post leaves every list as it
\* was and pushes nothing.
C4_NoSelfNotification ==
  [][ ((Accepted("toggleLike") \/ Accepted("addComment"))
       /\ findById(posts, ret'.arg).userId = ret'.user)
      => /\ notifications' = notifications
         /\ emitted' = <<>>
    ]_vars

\* a connected author has just liked their own post
C4_Witness ==
  /\ ret.op = "toggleLike"
  /\ ret.result.status = 200
  /\ ret.result.liked
  /\ findById(posts, ret.arg).userId = ret.user
  /\ has(userSockets, ret.user)

\* the text a comment notification is to carry
Shortened(text) ==
  IF Len(text) <= 50 THEN text
  ELSE [i \in 1..53 |-> IF i <= 50 THEN text[i] ELSE "."]

\* C6: a comment by a user other than the author of the post adds exactly
\* one notification to the author's list, of type newComment, whose
\* commentText is the comment's text, cut to 50 characters and "..." when it
\* is longer.
C6_CommentNotification ==
  [][ (Accepted("addComment") /\ findById(posts, ret'.arg).userId # ret'.user)
      => LET A == findById(posts, ret'.arg).userId
         IN /\ Cardinality(Fresh(A)) = 1
            /\ \A i \in Fresh(A) :
                 /\ notifications'[A][i].type = "newComment"
                 /\ notifications'[A][i].data.commentText
                      = Shortened(ret'.result.comment.text)
    ]_vars

\* the step was a like by B on a post of A that ended in the liked state
LikedBy(B, A) ==
  /\ Accepted("toggleLike")
  /\ ret'.result.liked
  /\ ret'.user = B
  /\ findById(posts, ret'.arg).userId = A

\* C5 as stated: a like by B on a post of another user A that ends in the
\* liked state raises getUnreadCount(A) by exactly 1 and leaves
\* getUnreadCount(B) as it was, in every reachable state of the store.
C5_UnreadPlusOne ==
  [][ \A A, B \in UserIds :
        (A # B /\ LikedBy(B, A))
        => /\ getUnreadCount(notifications', A) = getUnreadCount(notifications, A) + 1
           /\ getUnreadCount(notifications', B) = getUnreadCount(notifications, B)
    ]_vars

\* the list of A holds 50 records and its oldest one is unread
FullOldestUnread(A) ==
  /\ Len(ListOf(notifications, A)) = 50
  /\ ~notifications[A][50].read

\* C5, amended: such a like raises getUnreadCount(A) by exactly 1, with two
\* exceptions in which getUnreadCount(A) stays as it was: A's list already
\* holds 50 notifications and the oldest of them is unread (the insert drops
\* that one), or the publisher has been disconnected (the event is dropped).
\* getUnreadCount(B) is unchanged in every case.
C5_UnreadPlusOneUnlessEvicted ==
  [][ \A A, B \in UserIds :
        (A # B /\ LikedBy(B, A))
        => /\ getUnreadCount(notifications', A)
                = getUnreadCount(notifications, A)
                  + (IF FullOldestUnread(A) \/ ~bus.publisher THEN 0 ELSE 1)
           /\ getUnreadCount(notifications', B) = getUnreadCount(notifications, B)
    ]_vars

\* user 2 has just liked post 1 and user 1 has 50 unread notifications, the
\* oldest of them newer than the 49th of the list the run started with: the
\* like went into a full list
C5_Witness ==
  /\ ret.op = "toggleLike"
  /\ ret.result.status = 200
  /\ ret.result.liked
  /\ ret.user = 2
  /\ bus.publisher
  /\ getUnreadCount(notifications, 1) = 50
  /\ notifications[1][50].seq > 0 - 49

Called(op, u) == ret'.op = op /\ ret'.user = u

\* C8: for a user id that has no list in the store, getNotifications returns
\* the empty sequence, getUnreadCount returns 0, markAsRead and markAllAsRead
\* return false, and none of the four calls changes the store.
C8_UnknownUser ==
  [][ \A u \in UserIds :
        ~has(notifications, u)
        => /\ Called("getNotifications", u) => ret'.result = <<>>
           /\ Called("getUnreadCount", u) => ret'.result = 0
           /\ Called("markAsRead", u) => ret'.result = FALSE
           /\ Called("markAllAsRead", u) => ret'.result = FALSE
           /\ (\E op \in {"getNotifications", "getUnreadCount", "markAsRead", "markAllAsRead"} :
                 Called(op, u))
              => notifications' = notifications
    ]_vars

\* markAsRead has just returned false for a user without a list, asked for an
\* id that a record of another user carries
C8_Witness ==
  /\ ret.op = "markAsRead"
  /\ ~has(notifications, ret.user)
  /\ ret.arg \in StoredIds
  /\ ret.result = FALSE

\* the first record of list whose id is id, 0 when there is none
FirstWithId(list, id) ==
  IF \E i \in 1..Len(list) : list[i].id = id
  THEN CHOOSE i \in 1..Len(list) :
         /\ list[i].id = id
         /\ \A j \in 1..(i - 1) : list[j].id # id
  ELSE 0

\* C9: markAsRead(user, id) with the id in the user's list returns true and
\* leaves that entry read and every other entry of every list as it was;
\* with the id not in the list it returns false and changes nothing; in both
\* cases a repeated call returns the same value and changes nothing more.
C9_MarkAsReadIdempotent ==
  [][ \A u \in UserIds :
        Called("markAsRead", u)
        => LET old == ListOf(notifications, u)
               k == FirstWithId(old, ret'.arg)
               again == markAsRead(notifications', u, Number(ret'.arg))
           IN /\ k # 0
                 => /\ ret'.result = TRUE
                    /\ notifications' = [notifications EXCEPT ![u][k].read = TRUE]
              /\ k = 0
                 => /\ ret'.result = FALSE
                    /\ notifications' = notifications
              /\ again.result = ret'.result
              /\ again.store = notifications'
              /\ (ret.op = "markAsRead" /\ ret.user = u /\ ret.arg = ret'.arg)
                 => /\ ret'.result = ret.result
                    /\ notifications' = notifications
    ]_vars

\* markAsRead has just returned true on a list of two records, one of them
\* read and the other still unread
C9_Witness ==
  /\ ret.op = "markAsRead"
  /\ ret.result = TRUE
  /\ has(notifications, ret.user)
  /\ Len(notifications[ret.user]) = 2
  /\ \E i, j \in 1..2 : notifications[ret.user][i].read /\ ~notifications[ret.user][j].read

\* C10: markAllAsRead(user) for a user with a list returns true and leaves
\* every entry of that list read and otherwise as it was, so that
\* getUnreadCount(user) is 0 right after; a second call returns true and
\* changes nothing.
C10_MarkAllAsRead ==
  [][ \A u \in UserIds :
        (Called("markAllAsRead", u) /\ has(notifications, u))
        => LET again == markAllAsRead(notifications', u)
           IN /\ ret'.result = TRUE
              /\ DOMAIN notifications' = DOMAIN notifications
              /\ \A v \in DOMAIN notifications \ {u} : notifications'[v] = notifications[v]
              /\ Len(notifications'[u]) = Len(notifications[u])
              /\ \A i \in 1..Len(notifications[u]) :
                   notifications'[u][i] = [notifications[u][i] EXCEPT !.read = TRUE]
              /\ getUnreadCount(notifications', u) = 0
              /\ again.result = TRUE
              /\ again.store = notifications'
              /\ (ret.op = "markAllAsRead" /\ ret.user = u)
                 => notifications' = notifications
    ]_vars

\* markAllAsRead has just returned true on a list of two records
C10_Witness ==
  /\ ret.op = "markAllAsRead"
  /\ ret.result = TRUE
  /\ Len(ListOf(notifications, ret.user)) = 2
  /\ getUnreadCount(notifications, ret.user) = 0

\* the number of entries of the list of u whose read flag is false
UnreadEntries(u) ==
  Cardinality({i \in 1..Len(ListOf(notifications, u)) : notifications[u][i].read = FALSE})

\* C11: for every user, getUnreadCount(user) is the number of entries of the
\* user's stored list whose read flag is false, a number from 0 to 50; so is
\* what a getUnreadCount call and GET /api/notifications have just returned.
C11_UnreadCount ==
  \A u \in UserIds :
    /\ getUnreadCount(notifications, u) = UnreadEntries(u)
    /\ UnreadEntries(u) \in 0..50
    /\ (ret.op = "getUnreadCount" /\ ret.user = u) => ret.result = UnreadEntries(u)
    /\ (ret.op = "notifications" /\ ret.user = u) => ret.result.unreadCount = UnreadEntries(u)

\* getUnreadCount has just returned a number from 1 to 49 for a full list
\* whose newest entry came in during the run
C11_Witness ==
  /\ ret.op = "getUnreadCount"
  /\ ret.result \in 1..49
  /\ Len(ListOf(notifications, ret.user)) = 50
  /\ notifications[ret.user][1].seq > 0

\* list is the first n entries of full, in the order of full
PrefixOf(list, full, n) ==
  /\ Len(list) = n
  /\ \A i \in 1..n : list[i] = full[i]

\* C12: getNotifications(user, limit) returns the first min(limit, length)
\* entries of the user's list in stored order, the limit being 20 when the
\* caller gives none (GET /api/notifications), and leaves the store as it was.
C12_Prefix ==
  [][ \A u \in UserIds :
        LET list == ListOf(notifications, u)
        IN /\ Called("getNotifications", u)
              => /\ PrefixOf(ret'.result, list, Min(ret'.arg, Len(list)))
                 /\ notifications' = notifications
           /\ Called("notifications", u)
              => /\ PrefixOf(ret'.result.notifications, list, Min(20, Len(list)))
                 /\ notifications' = notifications
    ]_vars

\* GET /api/notifications has just returned 20 of the 50 entries of a list
\* whose newest entry came in during the run
C12_Witness ==
  /\ ret.op = "notifications"
  /\ Len(ret.result.notifications) = 20
  /\ Len(ListOf(notifications, ret.user)) = 50
  /\ notifications[ret.user][1].seq > 0
  /\ ret.result.notifications[1] = notifications[ret.user][1]

\* the step is a publishMessage call made while the publisher is connected
Publishes == ret'.op = "publishMessage" /\ bus.publisher

\* the message of the call was one JSON.parse reads back
Parsed(call) == "undefined" \notin DOMAIN call.arg.message

\* how many of the listeners are the callback
Occurrences(listeners, callback) ==
  Cardinality({i \in 1..Len(listeners) : listeners[i] = callback})

\* C13: when a handler fails during a publish (it throws, or the message
\* cannot be parsed), publishMessage still resolves, every handler subscribed
\* to the topic is still called when the message parses, and each newLike
\* handler among them still stores its notification.
C13_FailureIsolated ==
  [][(Publishes /\ turn'.caught # <<>>) =>
       LET listeners == bus.listeners[ret'.arg.channel]
       IN /\ ret'.result = "resolved"
          /\ Parsed(ret') => turn'.ran = listeners
          /\ (Parsed(ret') /\ ret'.arg.channel = "newLike") =>
               calls' - calls = Occurrences(listeners, "onNewLike")]_vars

C13_Witness ==
  /\ ret.op = "publishMessage"
  /\ ret.result = "resolved"
  /\ bus.listeners["newLike"] = <<"thrower", "onNewLike">>
  /\ turn.ran = <<"thrower", "onNewLike">>
  /\ Len(turn.caught) = 1
  /\ 1 \in DOMAIN notifications
  /\ notifications[1][1].seq = calls

\* the step handles a newPost message with the handler of index.js
HandlesNewPost ==
  /\ Publishes
  /\ ret'.arg.channel = "newPost"
  /\ Parsed(ret')
  /\ bus.listeners["newPost"] = <<"onNewPost">>

InAudienceOrder ==
  LET followers == FollowersOf(users, ret'.arg.message.author.id)
      Made(f) == has(notifications', f) /\ notifications'[f][1].seq > calls
  IN \A i, j \in 1..Len(followers) :
       (i < j /\ Made(followers[i].id) /\ Made(followers[j].id)) =>
         notifications'[followers[i].id][1].seq < notifications'[followers[j].id][1].seq

\* what a publish does to the handlers of its topic
InSubscriptionOrder ==
  /\ turn'.ran = bus.listeners[ret'.arg.channel]
  /\ ret'.arg.channel = "newPost" => InAudienceOrder

\* C15 as stated: every publish of a message calls every handler subscribed
\* to the topic once, in subscription order, and the newPost handler creates
\* the notifications in the order of the audience.
C15_EveryPublish ==
  [][(ret'.op = "publishMessage" /\ Parsed(ret')) => InSubscriptionOrder]_vars

\* C15 amended: while the publisher is connected, every publish of a message
\* that JSON carries calls every handler subscribed to the topic once, in
\* subscription order, and the newPost handler creates the notifications in
\* the order of the audience.
C15_ConnectedPublish ==
  [][(Publishes /\ Parsed(ret')) => InSubscriptionOrder]_vars

C15_Witness ==
  /\ ret.op = "publishMessage"
  /\ bus.publisher
  /\ bus.listeners["newLike"] = <<"onNewLike", "thrower">>
  /\ turn.ran = <<"onNewLike", "thrower">>
  /\ has(notifications, 2) /\ has(notifications, 3)
  /\ notifications[2][1].seq < notifications[3][1].seq

\* the user got a notification of the type in the step, and with it the push
\* when a socket is registered for the user
ServedInStep(u, type) ==
  /\ has(notifications', u)
  /\ notifications'[u][1].seq > calls
  /\ notifications'[u][1].type = type
  /\ has(userSockets, u) =>
       \E k \in 1..Len(emitted') :
         emitted'[k].user = u /\ emitted'[k].to = userSockets[u]

\* C16: a post, like or comment request that publishes leaves nothing of the
\* fan-out to a later turn: what publishMessage does after its await is only
\* its log, and with the publisher connected the notifications of the event
\* are in the lists, and pushed, when the step that answers the request ends.
C16_SynchronousPublish ==
  [][turn'.jobs # <<>> =>
       /\ \A k \in 1..Len(turn'.jobs) : turn'.jobs[k].does = "log"
       /\ (bus.publisher /\ ret'.op = "toggleLike"
             /\ findById(posts, ret'.arg).userId # ret'.user) =>
            ServedInStep(findById(posts, ret'.arg).userId, "newLike")
       /\ (bus.publisher /\ ret'.op = "createPost") =>
            LET followers == FollowersOf(users, ret'.user)
            IN \A i \in 1..Len(followers) : ServedInStep(followers[i].id, "newPost")]_vars

C16_Witness ==
  /\ ret.op = "toggleLike"
  /\ ret.user = 2
  /\ ret.result.status = 200
  /\ ret.result.liked
  /\ bus.publisher
  /\ turn.jobs = <<AfterAwait("newLike")>>
  /\ has(notifications, 1)
  /\ notifications[1][1].seq = calls
  /\ Len(emitted) = 1

\* C17: once unsubscribeFromChannel was called for a topic, a publish on it
\* calls no handler and stores no notification; the call leaves the handlers
\* of the other topics subscribed, and a publish on such a topic still calls
\* them.
C17_Unsubscribed ==
  [][/\ (ret'.op = "publishMessage" /\ ret'.arg.channel \in bus.unsubscribed) =>
          (turn'.ran = <<>> /\ calls' = calls)
     /\ ret'.op = "unsubscribeFromChannel" =>
          \A other \in Channels \ {ret'.arg.channel} :
            bus'.listeners[other] = bus.listeners[other]
     /\ (Publishes /\ Parsed(ret') /\ bus.unsubscribed # {}
           /\ ret'.arg.channel \notin bus.unsubscribed) =>
          turn'.ran = bus.listeners[ret'.arg.channel]]_vars

\* the push carries the notification the step stored first in the user's list
PushOfStep(push) ==
  /\ has(notifications', push.user)
  /\ notifications'[push.user][1].seq > calls
  /\ notifications'[push.user][1].type = push.payload.type
  /\ notifications'[push.user][1].message = push.payload.message
  /\ notifications'[push.user][1].data = push.payload.data

\* C18: a step pushes at most once per notification it stores and per
\* recipient, only to the socket the registry holds for the recipient at that
\* moment, and only the notification stored in that same step: a recipient
\* without an entry gets no push, and no later step (an authenticate, a
\* connection) pushes a notification stored before.
C18_AtMostOncePush ==
  [][/\ Len(emitted') <= calls' - calls
     /\ \A k \in 1..Len(emitted') :
          /\ has(userSockets, emitted'[k].user)
          /\ emitted'[k].to = userSockets[emitted'[k].user]
          /\ PushOfStep(emitted'[k])
          /\ \A j \in 1..Len(emitted') : emitted'[j].user = emitted'[k].user => j = k
     /\ ret'.op # "toggleLike" => emitted' = <<>>]_vars

\* user 1 authenticates after a notification was stored while it had no entry
C18_Witness ==
  /\ ret.op = "authenticate"
  /\ ret.user = 1
  /\ ret.result = 1
  /\ has(userSockets, 1)
  /\ has(notifications, 1)
  /\ emitted = <<>>

\* the array holds no id twice
NoDuplicates(ids) == \A i, j \in 1..Len(ids) : ids[i] = ids[j] => i = j

\* C19: after any follow and unfollow requests by either route, B is in
\* A.following exactly when A is in B.followers, for all users A and B, and
\* no following or followers array holds an id twice.
C19_FollowGraphSymmetric ==
  \A a, b \in 1..Len(users) :
    /\ includes(users[a].following, users[b].id)
         <=> includes(users[b].followers, users[a].id)
    /\ NoDuplicates(users[a].following)
    /\ NoDuplicates(users[a].followers)

\* both users follow each other after requests by the two routes
C19_Witness ==
  /\ ret.op \in {"follow", "followUser"}
  /\ ret.result.status = 200
  /\ users[1].following = <<2>> /\ users[2].followers = <<1>>
  /\ users[2].following = <<1>> /\ users[1].followers = <<2>>
  /\ users # InitialUsers

\* the publishMessage calls of the step, one continuation each, are one call
\* for the channel
PublishedOnce(channel) == turn'.jobs = <<AfterAwait(channel)>>

\* what the like and the comment requests publish
LikesAndCommentsPublish ==
  /\ (ret'.op = "toggleLike" /\ ret'.result.status = 200) =>
       IF ret'.result.liked THEN PublishedOnce("newLike") ELSE turn'.jobs = <<>>
  /\ (ret'.op = "addComment" /\ ret'.result.status = 201) =>
       PublishedOnce("newComment")

\* C20 as stated: every post creation publishes one newPost event, every like
\* toggle that ends liked one newLike event, every added comment one
\* newComment event, and a toggle that ends not liked publishes nothing.
C20_EveryCreationPublishes ==
  [][/\ ret'.op = "createPost" => PublishedOnce("newPost")
     /\ LikesAndCommentsPublish]_vars

\* C20 amended: a post creation publishes one newPost event when its author
\* is a celebrity and nothing otherwise; likes and comments as stated.
C20_CelebrityCreationPublishes ==
  [][/\ ret'.op = "createPost" =>
          IF findById(users, ret'.user).type = "celebrity"
          THEN PublishedOnce("newPost")
          ELSE turn'.jobs = <<>>
     /\ LikesAndCommentsPublish]_vars

\* a post of the celebrity was created and published once
C20_Witness ==
  /\ ret.op = "createPost"
  /\ ret.user = 1
  /\ Len(posts) = Len(InitialPosts) + 1
  /\ turn.jobs = <<AfterAwait("newPost")>>

\* C21: every registry entry maps its user to a socket that is connected; no
\* entry refers to a socket whose disconnect handler has run.
C21_EntriesAreLive ==
  \A u \in DOMAIN userSockets : sockets[userSockets[u]].state = "open"

\* C22: POST /api/notifications/:id/read with the id of a notification of the
\* caller's list answers success and leaves that notification read; it answers
\* 404 only when the caller has no notification with that id.
C22_MarkReadRoute ==
  [][\A u \in UserIds :
       Called("markNotificationRead", u) =>
         LET k == FirstWithId(ListOf(notifications, u), ret'.arg)
         IN /\ k # 0 => (ret'.result.status = 200 /\ notifications'[u][k].read)
            /\ ret'.result.status = 404 => k = 0]_vars

\* C23: the notification pushed to a recipient is the record addNotification
\* made for that recipient in the step: it has the id, the timestamp and
\* read = false of the record at the head of the recipient's list.
C23_PushIsStoredRecord ==
  [][\A k \in 1..Len(emitted') :
       LET pushed == emitted'[k].payload
           stored == notifications'[emitted'[k].user][1]
       IN /\ {"id", "timestamp", "read"} \subseteq DOMAIN pushed
          /\ pushed.id = stored.id
          /\ pushed.timestamp = stored.timestamp
          /\ pushed.read = FALSE]_vars

\* the record the step stored for u is at the head of u's list, where
\* getNotifications returns it
StoredInStep(u) ==
  /\ has(notifications', u)
  /\ notifications'[u][1].seq > calls
  /\ getNotifications(notifications', u, DefaultLimit)[1] = notifications'[u][1]

\* C24: a notification that is pushed is in the recipient's list by then; a
\* recipient without a registry entry, and a recipient whose push fails, keep
\* the notification in their list, where getNotifications returns it.
C24_StoredBeforePush ==
  [][(Publishes /\ Parsed(ret')) =>
       /\ \A k \in 1..Len(emitted') : PushOfStep(emitted'[k])
       /\ (ret'.arg.channel = "newLike"
             /\ Occurrences(bus.listeners["newLike"], "onNewLike") > 0) =>
            (~has(userSockets, 1) /\ StoredInStep(1))
       /\ HandlesNewPost =>
            LET followers == FollowersOf(users, ret'.arg.message.author.id)
            IN \A i \in 1..Len(followers) :
                 (\A j \in 1..(i - 1) :
                    userSockets[followers[j].id] \notin ret'.arg.broken) =>
                   StoredInStep(followers[i].id)]_vars

\* the push to the first follower failed and its notification is in its list
C24_Witness ==
  /\ ret.op = "publishMessage"
  /\ ret.arg.channel = "newPost"
  /\ ret.arg.broken = {1}
  /\ turn.ran = <<"onNewPost">>
  /\ turn.caught # <<>>
  /\ emitted = <<>>
  /\ has(notifications, 2)
  /\ notifications[2][1].seq = calls

\* C25: no two records held in the store have the same id.
C25_UniqueIds ==
  \A u, v \in DOMAIN notifications :
    \A i \in 1..Len(notifications[u]), j \in 1..Len(notifications[v]) :
      notifications[u][i].id = notifications[v][j].id => (u = v /\ i = j)

\* the record is the same notification, but for its read flag
SameButRead(a, b) ==
  /\ a.seq = b.seq
  /\ a.id = b.id /\ a.type = b.type /\ a.title = b.title
  /\ a.message = b.message /\ a.data = b.data /\ a.timestamp = b.timestamp

\* C26: a stored notification keeps its id, type, title, message, data and
\* timestamp; its read flag changes only from false to true and only in a
\* markAsRead or markAllAsRead of its owner; it leaves the list only as the
\* oldest record of a full list to which addNotification adds one.
C26_OnlyReadChanges ==
  [][\A u \in DOMAIN notifications :
       ListOf(notifications', u) = notifications[u] \/
       \A i \in 1..Len(notifications[u]) :
         LET old == notifications[u][i]
             kept == {j \in 1..Len(ListOf(notifications', u)) :
                        notifications'[u][j].seq = old.seq}
         IN IF kept = {}
            THEN /\ i = Capacity
                 /\ Called("addNotification", u)
                 /\ Len(notifications'[u]) = Capacity
                 /\ notifications'[u][1].seq > calls
            ELSE \A j \in kept :
                   /\ SameButRead(old, notifications'[u][j])
                   /\ old.read => notifications'[u][j].read
                   /\ old.read # notifications'[u][j].read =>
                        (Called("markAsRead", u) \/ Called("markAllAsRead", u))]_vars

\* two records were added to the list of user 1 since it held 49, the oldest
\* was evicted, and the oldest that is left was marked read before
C26_Witness ==
  /\ ret.op = "addNotification"
  /\ calls = 2
  /\ Len(notifications[1]) = Capacity
  /\ notifications[1][1].seq = 2
  /\ notifications[1][Capacity].seq = 2 - Capacity
  /\ notifications[1][Capacity].read
  /\ ~notifications[1][1].read

\* C27: an event whose payload lacks a field its handler expects creates no
\* notification and pushes nothing; the error is caught and the events that
\* follow are handled.
C27_MalformedIsSkipped ==
  [][ ret'.op = "publishMessage"
        => /\ ret'.result = "resolved"
           /\ (ret'.arg.message \in Malformed(ret'.arg.channel)
                 => /\ notifications' = notifications
                    /\ emitted' = <<>>) ]_vars

\* C28: no follow or unfollow request through either route puts a user's own
\* id in their following list, so the scan of the newPost handler never
\* selects the author of a post and a post creation leaves the author's own
\* list as it was.
C28_AuthorNotInAudience ==
  [][ /\ \A i \in 1..Len(users') :
           /\ ~includes(users'[i].following, users'[i].id)
           /\ \A j \in 1..Len(FollowersOf(users', users'[i].id)) :
                FollowersOf(users', users'[i].id)[j].id # users'[i].id
      /\ ret'.op = "createPost" =>
           ListOf(notifications', ret'.user) = ListOf(notifications, ret'.user) ]_vars

\* a celebrity who follows their follower after a request to POST /follow
\* has posted: the follower got the notification, the author none
C28_Witness ==
  /\ ret.op = "createPost"
  /\ ret.user = 1
  /\ bus.publisher
  /\ users[1].following # <<>>
  /\ Len(ListOf(notifications, 2)) = 1
  /\ ~has(notifications, 1)

\* the call before the step was a like by C on the post of the step
JustLikedBy(C) ==
  /\ ret.op = "toggleLike"
  /\ ret.user = C
  /\ ret.arg = ret'.arg
  /\ ret.result.status = 200
  /\ ret.result.liked

\* C29: like requests are serialized: a like by B on a post of another user A
\* puts one notification for B in front of A's list and keeps the records
\* the list had, leaves the other lists alone and adds B once to post.likes;
\* so after likes by distinct users B and C, in either order, A's list holds
\* one notification for each and post.likes holds B and C once each.
C29_LikesSerialized ==
  [][ \A A, B \in FanIds :
        (LikedBy(B, A) /\ B # A) =>
          LET k == findIndexById(posts, ret'.arg)
              list == ListOf(notifications', A)
          IN /\ Len(list) > 0
             /\ list = spliceCapacity(<<list[1]>> \o ListOf(notifications, A))
             /\ list[1].type = "newLike"
             /\ list[1].data.likerId = B
             /\ list[1].seq > calls
             /\ \A u \in FanIds \ {A} :
                  ListOf(notifications', u) = ListOf(notifications, u)
             /\ posts'[k].likes = Append(posts[k].likes, B)
             /\ NoDuplicates(posts'[k].likes)
             /\ \A C \in FanIds \ {A, B} :
                  JustLikedBy(C) =>
                    /\ Len(list) >= 2
                    /\ list[2].data.likerId = C
                    /\ list[2].seq < list[1].seq
                    /\ includes(posts'[k].likes, C)
                    /\ Cardinality({i \in 1..Len(list) :
                                      list[i].seq > calls - 1}) = 2 ]_vars

\* users 2 and 3 have liked the post of user 1 in the same millisecond, user
\* 3 last
C29_Witness ==
  /\ ret.op = "toggleLike"
  /\ ret.user = 3
  /\ ret.result.liked
  /\ posts[1].likes = <<2, 3>>
  /\ Len(ListOf(notifications, 1)) = 2
  /\ notifications[1][1].data.likerId = 3
  /\ notifications[1][2].data.likerId = 2
  /\ notifications[1][1].timestamp = notifications[1][2].timestamp

\* C30: a disconnect removes a registry entry only when the entry points to
\* the disconnecting socket: the entry of a user who authenticated on another
\* socket later stays, with that socket.
C30_DisconnectKeepsOtherSocket ==
  [][ ret'.op = "disconnect" =>
        \A u \in DOMAIN userSockets :
          userSockets[u] # ret'.arg =>
            /\ has(userSockets', u)
            /\ userSockets'[u] = userSockets[u] ]_vars

\* C31: a notification for user U reaches only a socket that authenticated
\* with a token of U: whatever the connect, authenticate, join and disconnect
\* events of other clients, every socket a push for U is emitted to is the
\* one that registered U by an authenticate.
C31_PushOnlyToAuthenticated ==
  \A i \in 1..Len(emitted) :
    \A s \in Receivers(sockets, emitted[i].to) :
      /\ s = lastReg[emitted[i].user]
      /\ UserRoom(emitted[i].user) \in sockets[s].rooms

\* a notification for user 1 has just been pushed to socket 1 while socket 2,
\* which is the socket of user 2, is in the room user_1 after a join
C31_Witness ==
  /\ Len(emitted) = 1
  /\ emitted[1].user = 1
  /\ emitted[1].to = 1
  /\ Receivers(sockets, 1) = {1}
  /\ sockets[2].state = "open"
  /\ sockets[2].userId = 2
  /\ lastReg[2] = 2
  /\ UserRoom(1) \in sockets[2].rooms

\* the step was a write of the store for user U
WriteFor(U) ==
  \/ Called("addNotification", U)
  \/ Called("markAsRead", U)
  \/ Called("markAllAsRead", U)

\* C32: addNotification(U, ...), markAsRead(U, id) and markAllAsRead(U) leave
\* the list and the unread count of every user V other than U as they were,
\* also when id is the id of one of V's notifications.
C32_OtherUsersUntouched ==
  [][ \A U, V \in UserIds :
        (WriteFor(U) /\ V # U) =>
          /\ has(notifications', V) = has(notifications, V)
          /\ ListOf(notifications', V) = ListOf(notifications, V)
          /\ getUnreadCount(notifications', V) = getUnreadCount(notifications, V) ]_vars

\* user 2, who has a list, has just called markAsRead with the id of an unread
\* notification of user 1 that no record of user 2 carries
C32_Witness ==
  /\ ret.op = "markAsRead"
  /\ ret.user = 2
  /\ has(notifications, 2)
  /\ FirstWithId(notifications[2], ret.arg) = 0
  /\ FirstWithId(notifications[1], ret.arg) # 0
  /\ ~notifications[1][FirstWithId(notifications[1], ret.arg)].read
  /\ ret.result = FALSE

\* the step was a like toggle on a post that the route accepted
Toggled == ret'.op = "toggleLike" /\ ret'.result.status = 200

\* the step created one notification, a newLike one for author A about the
\* post and the liker of the step, and left the other lists alone
OneMoreLikeFor(A) ==
  /\ calls' = calls + 1
  /\ Cardinality(Fresh(A)) = 1
  /\ \A i \in Fresh(A) :
       /\ notifications'[A][i].type = "newLike"
       /\ notifications'[A][i].data.postId = ret'.arg
       /\ notifications'[A][i].data.likerId = ret'.user
  /\ \A u \in UserIds \ {A} : ListOf(notifications', u) = ListOf(notifications, u)

\* the step created no notification and removed none
NoneCreated == calls' = calls /\ notifications' = notifications /\ emitted' = <<>>

\* C33 as stated: a toggle that ends not liked creates no notification and
\* removes none, and every toggle to liked by a non-author creates one more
\* newLike notification for the author, so that the notifications created
\* for a post are as many as the toggles to liked by non-authors.
C33_OnePerLike ==
  [][ Toggled =>
        LET A == findById(posts, ret'.arg).userId
        IN IF ret'.result.liked /\ ret'.user # A
           THEN OneMoreLikeFor(A)
           ELSE NoneCreated ]_vars

\* C33, amended: the same while the publisher is connected; once
\* disconnectRedis has run a toggle to liked creates no notification either.
C33_OnePerLikeWhileConnected ==
  [][ Toggled =>
        LET A == findById(posts, ret'.arg).userId
        IN IF ret'.result.liked /\ ret'.user # A /\ bus.publisher
           THEN OneMoreLikeFor(A)
           ELSE NoneCreated ]_vars

\* user 2 has liked post 1, taken the like back and liked it again: user 1
\* holds two newLike notifications of user 2 for the post
C33_Witness ==
  /\ ret.op = "toggleLike"
  /\ ret.user = 2
  /\ ret.result.liked
  /\ posts[1].likes = <<2>>
  /\ calls = 2
  /\ Len(ListOf(notifications, 1)) = 2
  /\ \A i \in 1..2 : /\ notifications[1][i].type = "newLike"
                     /\ notifications[1][i].data.likerId = 2
                     /\ notifications[1][i].data.postId = 1

\* C34: the post id a stored notification refers to identifies the post that
\* caused the notification: whatever posts were created and deleted, a new
\* post never gets an id that a stored notification refers to.
C34_PostIdsNotReused ==
  [][ (ret'.op = "createPost") =>
        \A u \in DOMAIN notifications :
          \A i \in 1..Len(notifications[u]) :
            notifications[u][i].data.postId # ret'.result.id ]_vars

\* C35: once disconnectRedis has run, every publishMessage is dropped
\* silently: no handler runs, no notification is stored, no push is made and
\* the caller sees no error, and the notifications stored before stay as they
\* were.
C35_DroppedAfterShutdown ==
  [][ (ret'.op = "publishMessage" /\ ~bus.publisher) =>
        /\ turn'.ran = <<>>
        /\ turn'.caught = <<>>
        /\ calls' = calls
        /\ notifications' = notifications
        /\ emitted' = <<>>
        /\ ret'.result = "resolved" ]_vars

\* a newLike event has just been published after the shutdown, with its
\* handler subscribed and a notification of user 1 stored before: no handler
\* ran and the call resolved
C35_Witness ==
  /\ ret.op = "publishMessage"
  /\ ret.arg.channel = "newLike"
  /\ Parsed(ret)
  /\ ~bus.publisher
  /\ bus.listeners["newLike"] # <<>>
  /\ Len(ListOf(notifications, 1)) > 0
  /\ turn.ran = <<>>
  /\ ret.result = "resolved"

====
